---- MODULE Spec2Model ----
(***************************************************************************)
(* Port knock server (server binary with knock sessions): the gated base   *)
(* port, the knock listeners, the allowlist and the expiry sweeper         *)
(* ("peer manager").  Handlers are goroutines that share the package-level *)
(* slices allowedPeers and knockSessions without any lock, so every access *)
(* to shared memory is a step of its own.                                  *)
(*                                                                         *)
(* Memory model.  allowedPeers is a Go slice: a header (array, len) over a *)
(* backing array whose length is the capacity.  append writes in place     *)
(* when len < cap and copies into a fresh array otherwise; the sweeper's   *)
(* append(a[:i], a[i+1:]...) always shifts in place.  knockSessions and a  *)
(* session's knocks are append-only, they are kept as values that are      *)
(* loaded and stored whole.                                                *)
(***************************************************************************)
EXTENDS Integers, Sequences, FiniteSets, TLC

\* ---------------------------------------------------------------- bounds
MaxSeqLen == 2        \* longest configured knock sequence
MaxKnocks == 4        \* knock requests accepted in one run
MaxTime == 2          \* clock values 0..MaxTime
NumSlots == 2         \* handler goroutines that can be in flight together
AccessDuration == 1   \* the accessDuration flag, in clock units
KnockTimeout == 1     \* the knockTimeout of the README, in clock units

\* ------------------------------------------------------------- constants
BasePort == 8080

NilIP == <<>>
NoEntry == [ip |-> <<0>>, start |-> 0 - 1, end |-> 0 - 1]
NoGrant == [hist |-> <<>>, T |-> 0 - 1]
NoHdr == [arr |-> 1, len |-> 0]

\* ------------------------------------------------------------ the inputs
\* A host is the text of the host part, field by field ("10.0.0.256" is
\* <<10,0,0,256>>); a remote address is <<host, port>>, or <<host>> when the
\* port is missing.
HostA == <<10, 0, 0, 1>>
HostB == <<10, 0, 0, 2>>
HostBad == <<10, 0, 0, 256>>

\* net.SplitHostPort: fails when there is no port.
SplitHostPort(addr) ==
    IF Len(addr) = 2
    THEN [host |-> addr[1], port |-> addr[2], err |-> FALSE]
    ELSE [host |-> <<>>, port |-> 0, err |-> TRUE]

\* net.ParseIP: nil (no error) for text that is not an IP address.
ParseIP(host) ==
    IF Len(host) = 4 /\ \A k \in 1..4 : host[k] \in 0..255
    THEN host
    ELSE NilIP

\* A getPeer that keeps the client port in the identity.
getPeerWithPort(addr) ==
    LET sp == SplitHostPort(addr) IN
    IF sp.err THEN [ip |-> NilIP, err |-> TRUE]
    ELSE [ip |-> Append(ParseIP(sp.host), sp.port), err |-> FALSE]

getPeer(addr) ==
    LET sp == SplitHostPort(addr) IN
    IF sp.err THEN [ip |-> NilIP, err |-> TRUE]
    ELSE [ip |-> ParseIP(sp.host), err |-> FALSE]

\* net.IP.Equal on the canonical forms used here (nil equals nil).
Equal(ip, x) == ip = x

\* Identity of a request as the specification defines it: source IP only.
SourceIP(addr) == ParseIP(SplitHostPort(addr).host)
ValidAddr(addr) == ~SplitHostPort(addr).err /\ SourceIP(addr) # NilIP

\* ---------------------------------------------------- the knockSequence flag
\* The flag is kept as strings.Split leaves it: a sequence of tokens, a token
\* being a sequence of characters.  A decimal digit is its value, any other
\* character is NonDigit; "8081," splits into <<8,0,8,1>> and <<>>.
NonDigit == 0 - 1

RECURSIVE Itoa(_)
Itoa(n) == IF n < 10 THEN <<n>> ELSE Append(Itoa(n \div 10), n % 10)

RECURSIVE DecimalValue(_)
DecimalValue(tok) ==
    IF tok = <<>> THEN 0
    ELSE 10 * DecimalValue(SubSeq(tok, 1, Len(tok) - 1)) + tok[Len(tok)]

\* strconv.Atoi on unsigned text: an error for the empty token and for a
\* token with a character that is no digit.
Atoi(tok) ==
    IF Len(tok) > 0 /\ \A k \in 1..Len(tok) : tok[k] \in 0..9
    THEN [v |-> DecimalValue(tok), err |-> FALSE]
    ELSE [v |-> 0, err |-> TRUE]

\* parseKnockSequence: every token through Atoi, log.Fatalf on the first
\* error; nothing else is checked.
parseKnockSequence(seq) ==
    IF \E k \in 1..Len(seq) : Atoi(seq[k]).err
    THEN [fatal |-> TRUE, seq |-> <<>>]
    ELSE [fatal |-> FALSE, seq |-> [k \in 1..Len(seq) |-> Atoi(seq[k]).v]]

VARIABLES
    mode,                \* scheduling discipline and input set of the run
    knockLength,         \* flag knockLength
    knockSequence,       \* flag knockSequence, split at the commas
    validKnockSequence,  \* parsed flag knockSequence
    main,                \* "boot" | "running" | "fatal"
    listeners,           \* ports with a bound HTTP server
    now,                 \* the clock
    allowedPeers,        \* slice header [arr, len]
    arrays,              \* backing arrays of allowedPeers, by array id
    knockSessions,       \* sequence of session ids (pointers)
    sessions,            \* knockSession objects [ip, knocks], by id
    ctxDone,             \* peerManagerContext cancelled, servers shut down
    req,                 \* handler goroutines
    sw,                  \* the peer manager goroutine
    nKnocks,             \* knock requests accepted so far
    last,                \* the request that finished in the step just taken
    hist,                \* per peer: knocks that reached the session code since
                         \* its session was created
    grant,               \* per peer: hist and time at its latest allowPeer append
    origin,              \* per peer: "clean" | "expired" | "dirty"
    streak,              \* per peer: in-order knocks handled since origin
    exp,                 \* per peer: knocks handled while not allowed
    srcs,                \* per peer: client ports of those knocks
    passAt,              \* clock value at the start of the last finished sweep
    born                 \* per peer: clock value when its session was created
                         \* (recorded in the runs that start at main)

cfgVars == <<mode, knockLength, knockSequence, validKnockSequence, main, listeners>>
memVars == <<allowedPeers, arrays, knockSessions, sessions>>
ghostVars == <<hist, grant, origin, streak, exp, srcs, passAt, born>>
vars == <<mode, knockLength, knockSequence, validKnockSequence, main, listeners, now, allowedPeers, arrays,
          knockSessions, sessions, ctxDone, req, sw, nKnocks, last, hist,
          grant, origin, streak, exp, srcs, passAt, born>>

\* ------------------------------------------------------- inputs per mode
Hosts ==
    CASE mode = "serial" -> {HostA, HostBad}
      [] mode \in {"ports", "conc", "flags"} -> {HostA}
      [] OTHER -> {HostA, HostB}
SrcPorts == IF mode = "ports" THEN {40001, 40002} ELSE {40001}
RemoteAddrs ==
    {<<h, p>> : h \in Hosts, p \in SrcPorts}
        \cup (IF mode = "serial" THEN {<<HostA>>} ELSE {})
IDs == {HostA, HostB, NilIP}

\* Knock requests accepted in one run; one fewer when every handler races.
KnockBudget == IF mode = "conc" THEN MaxKnocks - 1 ELSE MaxKnocks

Slots == 1..NumSlots
KnockPorts == (BasePort + 1)..(BasePort + knockLength)
N == Len(validKnockSequence)

\* ------------------------------------------------------- derived views
Live == SubSeq(arrays[allowedPeers.arr], 1, allowedPeers.len)
HasEntry(list, p) == \E k \in 1..Len(list) : list[k].ip = p
InAllowlist(p) == HasEntry(Live, p)
EntriesOf(p) == {k \in 1..Len(Live) : Live[k].ip = p}
SessionIdsOf(p) ==
    {k \in 1..Len(knockSessions) : sessions[knockSessions[k]].ip = p}
SessionOf(p) ==
    IF SessionIdsOf(p) = {} THEN <<>>
    ELSE LET k == CHOOSE k \in SessionIdsOf(p) :
                      \A j \in SessionIdsOf(p) : k <= j
         IN sessions[knockSessions[k]].knocks
SharedState == <<Live, knockSessions, sessions>>

Idle ==
    [pc |-> "idle", kind |-> "none", addr |-> <<>>, port |-> 0, peer |-> NilIP,
     ctx |-> "none", hdr |-> NoHdr, i |-> 0, s |-> 0, loc |-> <<>>,
     start |-> 0, end |-> 0, was |-> FALSE, pre |-> <<>>, rsp |-> "none",
     hit |-> NoEntry]

\* The peer manager between two passes, none finished yet.  tick is the
\* buffer of ticker.C.  t, pre and fin describe the pass: the clock and the
\* list when it began, the clock when it ended.
NoPass ==
    [pc |-> "wait", i |-> 0, hdr |-> NoHdr, tick |-> FALSE,
     t |-> 0, pre |-> <<>>, fin |-> 0 - 1]

NoLast ==
    [kind |-> "none", addr |-> <<>>, port |-> 0, rsp |-> "none",
     hit |-> NoEntry, was |-> FALSE, same |-> TRUE]

\* ------------------------------------------------------------------ Init
Configs ==
    {[len |-> n, seq |-> [k \in 1..n |-> BasePort + k]] : n \in 1..MaxSeqLen}

\* The package variables and the goroutines before any request.
NoGoroutines ==
    /\ ctxDone = FALSE
    /\ req = [h \in Slots |-> Idle]
    /\ sw = NoPass
    /\ last = NoLast
    /\ passAt = 0 - 1
    /\ born = [p \in IDs |-> 0 - 1]
    /\ srcs = [p \in IDs |-> {}]

InitState ==
    /\ now = 0
    /\ allowedPeers = NoHdr
    /\ arrays = << <<>> >>
    /\ knockSessions = <<>>
    /\ sessions = <<>>
    /\ nKnocks = 0
    /\ hist = [p \in IDs |-> <<>>]
    /\ grant = [p \in IDs |-> NoGrant]
    /\ origin = [p \in IDs |-> "clean"]
    /\ streak = [p \in IDs |-> 0]
    /\ exp = [p \in IDs |-> <<>>]
    /\ NoGoroutines

\* The server right after main has started it with one of the flag values
\* cfgs: the sequence parsed, every listener bound.
InitWith(m, cfgs) ==
    /\ mode = m
    /\ \E c \in cfgs :
          /\ knockLength = c.len
          /\ knockSequence = [k \in 1..Len(c.seq) |-> Itoa(c.seq[k])]
          /\ validKnockSequence = c.seq
    /\ main = "running"
    /\ listeners = {BasePort} \cup KnockPorts
    /\ InitState

Init == InitWith("serial", Configs)

\* ----------------------------------------------------------------- main
\* Flag values a run can be started with: any knockLength, any token list.
Tokens == {Itoa(BasePort + k) : k \in 1..MaxSeqLen} \cup {<<>>, <<8, 0, 8, NonDigit>>}
TokenLists == UNION {[1..n -> Tokens] : n \in 1..MaxSeqLen}
FlagConfigs == {[len |-> n, flag |-> f] : n \in 1..MaxSeqLen, f \in TokenLists}

\* The process before main has run.
InitFlags ==
    /\ mode = "flags"
    /\ \E c \in FlagConfigs : knockLength = c.len /\ knockSequence = c.flag
    /\ validKnockSequence = <<>>
    /\ main = "boot"
    /\ listeners = {}
    /\ InitState

\* main: parseKnockSequence, which ends the process on a token that is no
\* number, then the peer manager, the base server and one knock server for
\* each of basePort+1 .. basePort+knockLength.
Main ==
    LET ps == parseKnockSequence(knockSequence) IN
    /\ main = "boot"
    /\ IF ps.fatal
       THEN /\ main' = "fatal"
            /\ UNCHANGED <<validKnockSequence, listeners>>
       ELSE /\ main' = "running"
            /\ validKnockSequence' = ps.seq
            /\ listeners' = {BasePort} \cup KnockPorts
    /\ last' = NoLast
    /\ UNCHANGED <<mode, knockLength, knockSequence, now, memVars, ctxDone, req,
                   sw, nKnocks, ghostVars>>

\* ------------------------------------------------------------ scheduling
\* The times of grants and sweeps are recorded in the one-at-a-time runs.
Timed == mode \in {"serial", "flags"}
\* The list and the times of a pass are recorded in the runs that start
\* from a filled allowlist.
PassRecorded == mode = "sweep"
Alive == main = "running" /\ sw.pc # "crashed"
Quiet == (\A h \in Slots : req[h].pc = "idle") /\ sw.pc \in {"wait", "exited"}
LowestIdle(h) == req[h].pc = "idle" /\ \A j \in 1..(h - 1) : req[j].pc # "idle"
CanStart(p) ==
    CASE mode \in {"serial", "ports", "flags"} -> Quiet
      [] mode = "peers" ->
            \A h \in Slots : req[h].pc # "idle" => SourceIP(req[h].addr) # p
      [] mode = "sweep" -> \A h \in Slots : req[h].pc = "idle"
      [] OTHER -> TRUE

\* ------------------------------------------------- finishing a request
\* The handler wrote its response: the goroutine ends and the request is
\* recorded, together with what the record of the run needs about it.
Finished(r) ==
    [kind |-> r.kind, addr |-> r.addr, port |-> r.port, rsp |-> r.rsp,
     hit |-> r.hit, was |-> r.was,
     same |-> IF r.pre = <<>> THEN TRUE ELSE r.pre = SharedState']

Commit(h, r) ==
    IF r.pc = "fin"
    THEN LET p == SourceIP(r.addr)
             handled == r.kind = "knock" /\ r.rsp \in {"knock", "complete"}
             inOrder == /\ origin[p] # "dirty"
                        /\ streak[p] < N
                        /\ r.port = validKnockSequence[streak[p] + 1]
         IN /\ req' = [req EXCEPT ![h] = Idle]
            /\ last' = Finished(r)
            /\ exp' = IF handled THEN [exp EXCEPT ![p] = Append(@, r.port)] ELSE exp
            /\ srcs' = IF handled THEN [srcs EXCEPT ![p] = @ \cup {r.addr[2]}] ELSE srcs
            /\ streak' = IF handled
                          THEN [streak EXCEPT ![p] = IF inOrder THEN @ + 1 ELSE 0]
                          ELSE streak
            /\ origin' = IF handled /\ ~inOrder
                          THEN [origin EXCEPT ![p] = "dirty"]
                          ELSE origin
    ELSE /\ req' = [req EXCEPT ![h] = r]
         /\ last' = NoLast
         /\ UNCHANGED <<exp, srcs, streak, origin>>

\* A knock handler without the "already allowed" return.
AfterScanNoFastPath(r, found, e) ==
    CASE r.ctx = "gate" ->
            [r EXCEPT !.pc = "fin", !.hit = e,
                      !.rsp = IF found THEN "granted" ELSE "denied"]
      [] r.ctx = "fast" -> [r EXCEPT !.pc = "lookup"]
      [] OTHER ->
            IF found THEN [r EXCEPT !.pc = "fin", !.hit = e, !.rsp = "complete"]
            ELSE [r EXCEPT !.pc = "mkstart"]

\* What follows isPeerAllowed in each of its three callers.
AfterScan(r, found, e) ==
    CASE r.ctx = "gate" ->
            [r EXCEPT !.pc = "fin", !.hit = e,
                      !.rsp = IF found THEN "granted" ELSE "denied"]
      [] r.ctx = "fast" ->
            IF found THEN [r EXCEPT !.pc = "fin", !.hit = e, !.rsp = "already"]
            ELSE [r EXCEPT !.pc = "lookup"]
      [] OTHER ->
            IF found THEN [r EXCEPT !.pc = "fin", !.hit = e, !.rsp = "complete"]
            ELSE [r EXCEPT !.pc = "mkstart"]

\* ------------------------------------------------------------- handlers
\* isPeerAllowed begins: the range statement loads the slice header once.
\* Over an empty slice the loop body never runs and the caller goes on.
BeginScan(r, ctx) ==
    LET r1 == [r EXCEPT !.ctx = ctx, !.hdr = allowedPeers, !.i = 1] IN
    IF allowedPeers.len = 0
    THEN AfterScan(r1, FALSE, NoEntry)
    ELSE [r1 EXCEPT !.pc = "scan"]

\* The knock passed the fast path and reaches the session code.
Reaches(r) == [hist EXCEPT ![SourceIP(r.addr)] = Append(@, r.port)]

\* A request arrives on the gated port or on a knock port: getPeer, then the
\* call of isPeerAllowed.
Start(h, a, kind, port) ==
    LET gp == getPeer(a)
        p == SourceIP(a)
        knock == kind = "knock" /\ ~gp.err
        was == knock /\ InAllowlist(p)
        r0 == [Idle EXCEPT !.kind = kind, !.addr = a, !.port = port, !.was = was,
                           !.peer = gp.ip,
                           !.pre = IF was \/ ~ValidAddr(a) THEN SharedState ELSE <<>>]
    IN /\ Alive /\ ~ctxDone
       /\ LowestIdle(h)
       /\ CanStart(p)
       /\ kind = "knock" => nKnocks < KnockBudget
       /\ nKnocks' = IF knock THEN nKnocks + 1 ELSE nKnocks
       /\ hist' = IF knock /\ allowedPeers.len = 0 THEN Reaches(r0) ELSE hist
       /\ UNCHANGED <<cfgVars, now, memVars, ctxDone, sw, grant, passAt, born>>
       /\ Commit(h, IF gp.err
                    THEN [r0 EXCEPT !.pc = "fin", !.rsp = "500"]
                    ELSE BeginScan(r0, IF kind = "gate" THEN "gate" ELSE "fast"))

StartBase(h) ==
    \E a \in RemoteAddrs, port \in listeners \cap {BasePort} :
        Start(h, a, "gate", port)
StartKnock(h) ==
    \E a \in RemoteAddrs, port \in listeners \ {BasePort} :
        Start(h, a, "knock", port)

\* One iteration of the range loop of isPeerAllowed: element i of the array
\* the loaded header points to.
Scan(h) ==
    LET r == req[h]
        e == arrays[r.hdr.arr][r.i]
    IN /\ Alive /\ r.pc = "scan"
       /\ UNCHANGED <<cfgVars, now, memVars, ctxDone, sw, nKnocks, grant, passAt, born>>
       /\ IF Equal(e.ip, r.peer)
          THEN /\ UNCHANGED hist
               /\ Commit(h, AfterScan(r, TRUE, e))
          ELSE IF r.i < r.hdr.len
          THEN /\ UNCHANGED hist
               /\ Commit(h, [r EXCEPT !.i = r.i + 1])
          ELSE /\ hist' = IF r.ctx = "fast" THEN Reaches(r) ELSE hist
               /\ Commit(h, AfterScan(r, FALSE, NoEntry))

peerHasKnockSession(peer) ==
    LET hits == {k \in 1..Len(knockSessions) :
                     Equal(sessions[knockSessions[k]].ip, peer)}
    IN IF hits = {} THEN [has |-> FALSE, s |-> 0]
       ELSE [has |-> TRUE,
             s |-> knockSessions[CHOOSE k \in hits : \A j \in hits : k <= j]]

Lookup(h) ==
    LET r == req[h]
        f == peerHasKnockSession(r.peer)
    IN /\ Alive /\ r.pc = "lookup"
       /\ UNCHANGED <<cfgVars, now, memVars, ctxDone, sw, nKnocks, hist, grant, passAt, born>>
       /\ Commit(h, IF f.has THEN [r EXCEPT !.pc = "loadk", !.s = f.s]
                             ELSE [r EXCEPT !.pc = "create"])

\* createKnockSessionForPeer: allocate the session, load knockSessions ...
Create(h) ==
    LET r == req[h] IN
    /\ Alive /\ r.pc = "create"
    /\ sessions' = Append(sessions, [ip |-> r.peer, knocks |-> <<r.port>>])
    /\ UNCHANGED <<cfgVars, now, allowedPeers, arrays, knockSessions, ctxDone, sw,
                   nKnocks, hist, grant, passAt, born>>
    /\ Commit(h, [r EXCEPT !.pc = "cstore", !.s = Len(sessions) + 1,
                           !.loc = knockSessions])

\* ... and store the appended slice; the handler answers "Knock, knock!".
CreateStore(h) ==
    LET r == req[h] IN
    /\ Alive /\ r.pc = "cstore"
    /\ knockSessions' = Append(r.loc, r.s)
    /\ hist' = [hist EXCEPT ![SourceIP(r.addr)] = <<r.port>>]
    /\ born' = IF mode = "flags" THEN [born EXCEPT ![SourceIP(r.addr)] = now]
               ELSE born
    /\ UNCHANGED <<cfgVars, now, allowedPeers, arrays, sessions, ctxDone, sw,
                   nKnocks, grant, passAt>>
    /\ Commit(h, [r EXCEPT !.pc = "fin", !.rsp = "knock"])

\* s.knocks = append(s.knocks, port): the load ...
LoadKnocks(h) ==
    LET r == req[h] IN
    /\ Alive /\ r.pc = "loadk"
    /\ UNCHANGED <<cfgVars, now, memVars, ctxDone, sw, nKnocks, hist, grant, passAt, born>>
    /\ Commit(h, [r EXCEPT !.pc = "storek", !.loc = sessions[r.s].knocks])

\* ... and the store.
StoreKnocks(h) ==
    LET r == req[h] IN
    /\ Alive /\ r.pc = "storek"
    /\ sessions' = [sessions EXCEPT ![r.s].knocks = Append(r.loc, r.port)]
    /\ UNCHANGED <<cfgVars, now, allowedPeers, arrays, knockSessions, ctxDone, sw,
                   nKnocks, hist, grant, passAt, born>>
    /\ Commit(h, [r EXCEPT !.pc = "check", !.loc = <<>>])

\* A completeness check that compares the length only.
knockSessionHasLength(knocks) == Len(knocks) = Len(validKnockSequence)

knockSessionIsComplete(knocks) ==
    /\ Len(knocks) = Len(validKnockSequence)
    /\ \A k \in 1..Len(knocks) : knocks[k] = validKnockSequence[k]

Check(h) ==
    LET r == req[h] IN
    /\ Alive /\ r.pc = "check"
    /\ UNCHANGED <<cfgVars, now, memVars, ctxDone, sw, nKnocks, hist, grant, passAt, born>>
    /\ Commit(h, IF knockSessionIsComplete(sessions[r.s].knocks)
                 THEN [r EXCEPT !.pc = "allow"]
                 ELSE [r EXCEPT !.pc = "fin", !.rsp = "knock"])

\* allowPeer: its call of isPeerAllowed loads the header.
AllowPeer(h) ==
    LET r == req[h] IN
    /\ Alive /\ r.pc = "allow"
    /\ UNCHANGED <<cfgVars, now, memVars, ctxDone, sw, nKnocks, hist, grant, passAt, born>>
    /\ Commit(h, BeginScan(r, "allow"))

\* start: time.Now()
MakeStart(h) ==
    LET r == req[h] IN
    /\ Alive /\ r.pc = "mkstart"
    /\ UNCHANGED <<cfgVars, now, memVars, ctxDone, sw, nKnocks, hist, grant, passAt, born>>
    /\ Commit(h, [r EXCEPT !.pc = "mkend", !.start = now])

\* end: time.Now().Add(*accessDuration)
MakeEnd(h) ==
    LET r == req[h] IN
    /\ Alive /\ r.pc = "mkend"
    /\ UNCHANGED <<cfgVars, now, memVars, ctxDone, sw, nKnocks, hist, grant, passAt, born>>
    /\ Commit(h, [r EXCEPT !.pc = "aload", !.end = now + AccessDuration])

\* allowedPeers = append(allowedPeers, ...): the load of the header ...
AppendLoad(h) ==
    LET r == req[h] IN
    /\ Alive /\ r.pc = "aload"
    /\ UNCHANGED <<cfgVars, now, memVars, ctxDone, sw, nKnocks, hist, grant, passAt, born>>
    /\ Commit(h, [r EXCEPT !.pc = "astore", !.hdr = allowedPeers])

\* Capacity the runtime gives a pointer slice that outgrows oldcap.
GrowCap(oldcap) == IF oldcap = 0 THEN 1 ELSE 2 * oldcap

\* ... and the write of the element and the store of the new header; the
\* handler answers "Access granted!".
AppendStore(h) ==
    LET r == req[h]
        e == [ip |-> r.peer, start |-> r.start, end |-> r.end]
        old == arrays[r.hdr.arr]
        grown == [k \in 1..GrowCap(Len(old)) |->
                     IF k <= r.hdr.len THEN old[k]
                     ELSE IF k = r.hdr.len + 1 THEN e ELSE NoEntry]
        p == SourceIP(r.addr)
    IN /\ Alive /\ r.pc = "astore"
       /\ IF r.hdr.len < Len(old)
          THEN /\ arrays' = [arrays EXCEPT ![r.hdr.arr][r.hdr.len + 1] = e]
               /\ allowedPeers' = [arr |-> r.hdr.arr, len |-> r.hdr.len + 1]
          ELSE /\ arrays' = Append(arrays, grown)
               /\ allowedPeers' = [arr |-> Len(arrays) + 1, len |-> r.hdr.len + 1]
       /\ grant' = [grant EXCEPT ![p] = [hist |-> hist[p],
                                         T |-> IF Timed THEN r.start ELSE 0]]
       /\ UNCHANGED <<cfgVars, now, knockSessions, sessions, ctxDone, sw, nKnocks,
                      hist, passAt, born>>
       /\ Commit(h, [r EXCEPT !.pc = "fin", !.rsp = "complete"])

\* ---------------------------------------------------------- peer manager
\* case <-ticker.C: a pass over allowedPeers begins.  The select takes a
\* tick that is waiting in the channel; with none waiting it blocks until
\* the next tick, unless ctx.Done() is ready.
SweepWake ==
    /\ Alive /\ sw.pc = "wait"
    /\ sw.tick \/ ~ctxDone
    /\ mode \in {"serial", "ports", "flags"} => Quiet
    /\ sw' = [sw EXCEPT !.pc = "loop", !.i = 1, !.tick = FALSE,
                         !.t = IF Timed \/ PassRecorded THEN now ELSE 0,
                         !.pre = IF PassRecorded THEN Live ELSE <<>>,
                         !.fin = 0 - 1]
    /\ last' = NoLast
    /\ UNCHANGED <<cfgVars, now, memVars, ctxDone, req, nKnocks, ghostVars>>

\* case <-ctx.Done(): the goroutine returns.
SweepExit ==
    /\ Alive /\ sw.pc = "wait" /\ ctxDone
    /\ sw' = [sw EXCEPT !.pc = "exited"]
    /\ last' = NoLast
    /\ UNCHANGED <<cfgVars, now, memVars, ctxDone, req, nKnocks, ghostVars>>

\* time.Now().After(allowedPeers[i].end)
expired(t, e) == t > e.end

\* Loop condition i < len(allowedPeers) and the expiry test of element i.
SweepCheck ==
    /\ Alive /\ sw.pc = "loop"
    /\ IF sw.i > allowedPeers.len
       THEN /\ sw' = [sw EXCEPT !.pc = "wait", !.i = 0,
                                !.fin = IF PassRecorded THEN now ELSE 0 - 1]
            /\ passAt' = IF Timed THEN sw.t ELSE passAt
       ELSE /\ sw' = IF expired(now, arrays[allowedPeers.arr][sw.i])
                     THEN [sw EXCEPT !.pc = "remove"]
                     ELSE [sw EXCEPT !.i = sw.i + 1]
            /\ UNCHANGED passAt
    /\ last' = NoLast
    /\ UNCHANGED <<cfgVars, now, memVars, ctxDone, req, nKnocks, hist, grant,
                   origin, streak, exp, srcs, born>>

\* append(allowedPeers[:i], allowedPeers[i+1:]...): the load of the header;
\* slicing past its length panics and ends the process.
SweepLoad ==
    /\ Alive /\ sw.pc = "remove"
    /\ sw' = IF sw.i > allowedPeers.len
             THEN [sw EXCEPT !.pc = "crashed"]
             ELSE [sw EXCEPT !.pc = "shift", !.hdr = allowedPeers]
    /\ last' = NoLast
    /\ UNCHANGED <<cfgVars, now, memVars, ctxDone, req, nKnocks, ghostVars>>

\* A removal that forgets the i--.
AfterRemovalNoDecrement(i) == i + 1

\* i-- after the removal and i++ at the end of the iteration.
AfterRemoval(i) == (i - 1) + 1

\* The shift to the left inside the backing array and the store of the
\* shortened header.
SweepShift ==
    LET old == arrays[sw.hdr.arr]
        p == old[sw.i].ip
        known == p \in DOMAIN origin
    IN /\ Alive /\ sw.pc = "shift"
       /\ arrays' = [arrays EXCEPT ![sw.hdr.arr] =
                        [k \in 1..Len(old) |->
                            IF k >= sw.i /\ k < sw.hdr.len THEN old[k + 1] ELSE old[k]]]
       /\ allowedPeers' = [arr |-> sw.hdr.arr, len |-> sw.hdr.len - 1]
       /\ sw' = [sw EXCEPT !.pc = "loop", !.hdr = NoHdr, !.i = AfterRemoval(sw.i)]
       /\ origin' = IF known THEN [origin EXCEPT ![p] = "expired"] ELSE origin
       /\ streak' = IF known THEN [streak EXCEPT ![p] = 0] ELSE streak
       /\ last' = NoLast
       /\ UNCHANGED <<cfgVars, now, knockSessions, sessions, ctxDone, req, nKnocks,
                      hist, grant, exp, srcs, passAt, born>>

\* ------------------------------------------------------- the environment
\* The clock advances.
Tick ==
    /\ Alive /\ now < MaxTime
    /\ now' = now + 1
    /\ last' = NoLast
    /\ UNCHANGED <<cfgVars, memVars, ctxDone, req, sw, nKnocks, ghostVars>>

\* The ticker fires while the peer manager is busy with a pass: the tick
\* waits in the channel, which holds one.
TickerFires ==
    /\ Alive /\ sw.pc \in {"loop", "remove", "shift"}
    /\ ~sw.tick
    /\ sw' = [sw EXCEPT !.tick = TRUE]
    /\ last' = NoLast
    /\ UNCHANGED <<cfgVars, now, memVars, ctxDone, req, nKnocks, ghostVars>>

\* The shutdown handlers: peerManagerCancel() and the servers' Shutdown.
Shutdown ==
    /\ Alive /\ ~ctxDone
    /\ ctxDone' = TRUE
    /\ last' = NoLast
    /\ UNCHANGED <<cfgVars, now, memVars, req, sw, nKnocks, ghostVars>>

Handlers ==
    \/ \E h \in Slots : StartBase(h)
    \/ \E h \in Slots : StartKnock(h)
    \/ \E h \in Slots : Scan(h)
    \/ \E h \in Slots : Lookup(h)
    \/ \E h \in Slots : Create(h)
    \/ \E h \in Slots : CreateStore(h)
    \/ \E h \in Slots : LoadKnocks(h)
    \/ \E h \in Slots : StoreKnocks(h)
    \/ \E h \in Slots : Check(h)
    \/ \E h \in Slots : AllowPeer(h)
    \/ \E h \in Slots : MakeStart(h)
    \/ \E h \in Slots : MakeEnd(h)
    \/ \E h \in Slots : AppendLoad(h)
    \/ \E h \in Slots : AppendStore(h)

PeerManager ==
    \/ SweepWake
    \/ SweepCheck
    \/ SweepLoad
    \/ SweepShift

\* The server while it runs.
Next == Handlers \/ PeerManager \/ Tick

\* The server from its start to its shutdown.
NextLifecycle == Next \/ TickerFires \/ Shutdown \/ SweepExit

\* One request or sweep at a time, every address form.
Spec == Init /\ [][Next]_vars

\* One request or sweep at a time, one host on two client ports.
InitPorts == InitWith("ports", Configs)
SpecPorts == InitPorts /\ [][Next]_vars

\* ------------------------------------------------- a filled allowlist
\* Lists allowedPeers can hold at clock value t: each peer at most once, in
\* any order, every entry granted at some time up to t.
EntriesAt(t) ==
    {[ip |-> p, start |-> b, end |-> b + AccessDuration] : p \in IDs, b \in 0..t}
FilledLists(t) ==
    UNION {{f \in [1..n -> EntriesAt(t)] :
               \A j, k \in 1..n : j # k => f[j].ip # f[k].ip} :
           n \in 0..Cardinality(IDs)}

\* Capacity of a slice that append has grown to n elements.
RECURSIVE CapFor(_, _)
CapFor(n, c) == IF c >= n THEN c ELSE CapFor(n, GrowCap(c))

\* The server at some time, after the peers of one such list have knocked
\* the sequence and were granted; no request in flight.
InitSweep ==
    /\ mode = "sweep"
    /\ \E c \in {d \in Configs : d.len >= 2} :
          /\ knockLength = c.len
          /\ knockSequence = [k \in 1..Len(c.seq) |-> Itoa(c.seq[k])]
          /\ validKnockSequence = c.seq
    /\ main = "running"
    /\ listeners = {BasePort} \cup KnockPorts
    /\ now \in 0..MaxTime
    /\ \E list \in FilledLists(now) :
          LET n == Len(list)
              in(p) == HasEntry(list, p)
          IN /\ allowedPeers = [arr |-> 1, len |-> n]
             /\ arrays = << [k \in 1..CapFor(n, 0) |->
                                IF k <= n THEN list[k] ELSE NoEntry] >>
             /\ sessions = [k \in 1..n |->
                                [ip |-> list[k].ip, knocks |-> validKnockSequence]]
             /\ knockSessions = [k \in 1..n |-> k]
             /\ nKnocks = n * N
             /\ hist = [p \in IDs |-> IF in(p) THEN validKnockSequence ELSE <<>>]
             /\ exp = [p \in IDs |-> IF in(p) THEN validKnockSequence ELSE <<>>]
             /\ grant = [p \in IDs |->
                            IF in(p) THEN [hist |-> validKnockSequence, T |-> 0]
                            ELSE NoGrant]
             /\ origin = [p \in IDs |-> "clean"]
             /\ streak = [p \in IDs |-> IF in(p) THEN N ELSE 0]
    /\ NoGoroutines

\* Requests on the gated port, one at a time, while the peer manager runs.
NextSweep ==
    \/ \E h \in Slots : StartBase(h)
    \/ \E h \in Slots : Scan(h)
    \/ PeerManager
    \/ Tick
SpecSweep == InitSweep /\ [][NextSweep]_vars

\* From the start of the process with any flag values, one request or sweep
\* at a time.
NextFlags == Main \/ Next
SpecFlags == InitFlags /\ [][NextFlags]_vars

\* One request or sweep at a time, until the shutdown signal.
SpecLifecycle == Init /\ [][NextLifecycle]_vars

\* The same with the scheduling of the peer manager goroutine: a pass that
\* has begun goes on, and a select that finds ctx.Done() ready again and
\* again takes it in the end (the choice among ready cases is random).
SpecLifecycleFair ==
    /\ SpecLifecycle
    /\ WF_vars(SweepCheck \/ SweepLoad \/ SweepShift)
    /\ SF_vars(SweepExit)

\* Handlers of different peers and the sweeper interleave step by step.
InitPeers == InitWith("peers", Configs)
SpecPeers == InitPeers /\ [][Next]_vars

\* Handlers of one peer and the sweeper interleave step by step.
InitConc == InitWith("conc", Configs)
SpecConc == InitConc /\ [][Next]_vars

\* ------------------------------------------------------------ properties
Peers == IDs \ {NilIP}
LastPeer == SourceIP(last.addr)
InFlight(p) == \E h \in Slots : req[h].pc # "idle" /\ SourceIP(req[h].addr) = p
NoneInFlight == \A h \in Slots : req[h].pc = "idle"

\* C1: a peer that starts with no session and no entry and knocks the N
\* configured ports in order is in the allowlist once the N-th knock is
\* handled, and not before; the gated port answers accordingly.
C1_InOrderRunGrants ==
    /\ \A p \in Peers :
          origin[p] = "clean" /\ NoneInFlight => (InAllowlist(p) <=> streak[p] = N)
    /\ last.kind = "gate" /\ ValidAddr(last.addr) /\ origin[LastPeer] = "clean"
          => (last.rsp = "granted" <=> streak[LastPeer] = N)

C3_NoExpiredEntryAllowed ==
    last.hit # NoEntry => last.hit.end > now

\* C4: an entry created at T is reported allowed by every gated query before
\* T+D, and denied by every gated query at or after T+D that follows a sweep
\* executed at or after T+D.
C4_AllowedExactlyUntilExpiry ==
    LET T == grant[LastPeer].T IN
    last.kind = "gate" /\ ValidAddr(last.addr) /\ T >= 0 =>
        /\ now < T + AccessDuration => last.rsp = "granted"
        /\ now >= T + AccessDuration /\ passAt >= T + AccessDuration
              => last.rsp = "denied"

\* C5: a knock by a peer that is in the allowlist takes the fast path and
\* leaves the allowlist entries, the session table and every session as
\* they were.
C5_KnockWhileAllowedIsNoOp ==
    last.kind = "knock" /\ last.was => last.rsp = "already" /\ last.same

\* C5 witness: the allowed peer has knocked the whole sequence a second time.
C5_Witness ==
    /\ last.kind = "knock" /\ last.was /\ last.rsp = "already"
    /\ N = 2 /\ nKnocks = 2 * N /\ Len(sessions) = 1
    /\ last.port = validKnockSequence[N]

\* C6: with its own requests handled, a peer's session holds exactly the
\* knocks the server answered it, and a peer answered "Access granted!" is in
\* the allowlist, whatever another peer does meanwhile.
C6_PeersIndependent ==
    /\ \A p \in Peers : ~InFlight(p) => SessionOf(p) = exp[p]
    /\ last.kind = "knock" /\ last.rsp = "complete" => InAllowlist(LastPeer)

\* C7: a peer whose entry was removed by the sweeper and that then knocks
\* the whole sequence in order again is in the allowlist again.
C7_RegrantAfterExpiry ==
    \A p \in Peers :
        origin[p] = "expired" /\ streak[p] = N /\ NoneInFlight => InAllowlist(p)

\* C8: a request whose remote address gives no valid peer identity is
\* answered 500 and changes neither the allowlist nor the sessions.
C8_InvalidPeerIs500 ==
    last.kind # "none" /\ ~ValidAddr(last.addr) => last.rsp = "500" /\ last.same

\* C9: allowedPeers holds at most one entry per peer IP.
C9_OneEntryPerPeer ==
    \A p \in IDs : Cardinality(EntriesOf(p)) <= 1

\* C10: identity is the source IP only.  Knocks of one IP, whatever their
\* client ports, build one session, and the gated port answers granted to a
\* request exactly when its source IP has an entry, whatever its client port.
C10_IdentityIsSourceIP ==
    /\ NoneInFlight =>
          \A p \in Peers :
              /\ Cardinality(SessionIdsOf(p)) <= 1
              /\ SessionOf(p) = exp[p]
    /\ last.kind = "gate" /\ ValidAddr(last.addr)
          => (last.rsp = "granted" <=> InAllowlist(LastPeer))

\* C10 witness: a grant earned by knocks from two client ports is honoured.
C10_Witness ==
    /\ last.kind = "gate" /\ last.rsp = "granted"
    /\ Cardinality(srcs[LastPeer]) = 2
    /\ exp[LastPeer] = validKnockSequence
    /\ Len(sessions) = 1

\* C11: with a knockSequence flag that has a token that is no number, or the
\* same port twice, the process never runs: no listener is bound and no peer
\* is ever granted.
C11_BadSequenceRejected ==
    LET K == 1..Len(knockSequence)
        malformed == \E k \in K : Atoi(knockSequence[k]).err
        duplicate == \E i, j \in K :
                        /\ i < j
                        /\ ~Atoi(knockSequence[i]).err /\ ~Atoi(knockSequence[j]).err
                        /\ Atoi(knockSequence[i]).v = Atoi(knockSequence[j]).v
    IN malformed \/ duplicate =>
          /\ main # "running"
          /\ listeners = {}
          /\ \A p \in IDs : ~InAllowlist(p)

\* C20: in a running server whose sequence has no port twice, the knock
\* listeners are exactly the ports of the configured sequence, one for each
\* position.
C20_ListenersMatchSequence ==
    LET seqPorts == {validKnockSequence[k] : k \in 1..N} IN
    main = "running" /\ Cardinality(seqPorts) = N =>
        /\ listeners \ {BasePort} = seqPorts
        /\ Cardinality(listeners \ {BasePort}) = N

\* C12: a peer is added to the allowlist only when the knock that completes
\* its session is handled within knockTimeout of the knock that created the
\* session.
C12_GrantWithinKnockTimeout ==
    \A p \in Peers :
        grant[p].T >= 0 /\ born[p] >= 0 => grant[p].T - born[p] <= KnockTimeout

\* C13: once the handler of the knock that completes a peer's sequence has
\* answered, knockSessions holds no session of that peer.
C13_SessionDiscardedOnGrant ==
    last.kind = "knock" /\ last.rsp = "complete" => SessionIdsOf(LastPeer) = {}

\* C14: no session holds more than N knocks, and after a knock that is
\* answered "Knock, knock!" the peer's session is a prefix of the configured
\* sequence or holds that knock alone.
C14_ResetOnMismatch ==
    /\ \A k \in 1..Len(sessions) : Len(sessions[k].knocks) <= N
    /\ last.kind = "knock" /\ last.rsp = "knock" =>
          LET s == SessionOf(LastPeer) IN
          \/ s = <<last.port>>
          \/ Len(s) <= N /\ s = SubSeq(validKnockSequence, 1, Len(s))

\* C15: knocks of one peer are serialized.  With all its handlers returned,
\* the peer has at most one session and that session holds, in some order,
\* exactly the knocks that were answered as knocks: none lost, none twice.
C15_SamePeerSerialized ==
    LET Count(s, x) == Cardinality({k \in 1..Len(s) : s[k] = x}) IN
    NoneInFlight =>
        \A p \in Peers :
            /\ Cardinality(SessionIdsOf(p)) <= 1
            /\ \A x \in KnockPorts : Count(SessionOf(p), x) = Count(exp[p], x)

\* C16: the sweeper's store of the shortened slice drops no entry that is
\* in allowedPeers and expires later than now, in particular none that a
\* handler appended while the pass was in progress.
C16_SweepKeepsConcurrentGrant ==
    [][sw.pc = "shift" /\ sw'.pc = "loop" =>
          \A k \in 1..Len(Live) :
              Live[k].end > now => HasEntry(Live', Live[k].ip)]_vars

\* C17: a gated request of a peer that has an entry in allowedPeers which
\* expires later than now, from the start of isPeerAllowed to its end, is
\* answered granted, whatever the sweeper removes meanwhile.  (No entry is
\* added in these runs: such an entry at the end was there all along.)
C17_ScanFindsUnexpiredEntry ==
    last.kind = "gate" /\ ValidAddr(last.addr)
        /\ (\E k \in 1..Len(Live) : Live[k].ip = LastPeer /\ Live[k].end > now)
        => last.rsp = "granted"

\* C18: when a pass that began at time t on the list pre has ended at time
\* fin, every entry of pre with end < t is gone, every entry with end > fin
\* is still there, and the entries left are in the order they had in pre.
C18_PassRemovesExactlyExpired ==
    sw.pc = "wait" /\ sw.fin >= 0 =>
        LET kept == {Live[k] : k \in 1..Len(Live)}
            Kept(e) == e \in kept
        IN /\ \A k \in 1..Len(sw.pre) :
                 /\ sw.pre[k].end < sw.t => sw.pre[k] \notin kept
                 /\ sw.pre[k].end > sw.fin => sw.pre[k] \in kept
           /\ Live = SelectSeq(sw.pre, Kept)

\* C18 witness: a pass over three entries removed the first two, both
\* expired, and kept the last, which expires later.
C18_Witness ==
    /\ sw.pc = "wait" /\ sw.fin >= 0
    /\ Len(sw.pre) = 3 /\ Len(Live) = 1
    /\ sw.pre[1].end < sw.t /\ sw.pre[2].end < sw.t
    /\ sw.pre[3].end > sw.fin
    /\ Live[1] = sw.pre[3]

\* C19: once the context is cancelled the peer manager begins no new pass,
\* and after it has exited it changes neither its state nor allowedPeers.
C19_NoPassAfterCancel ==
    [][/\ ctxDone => ~(sw.pc = "wait" /\ sw'.pc = "loop")
       /\ sw.pc = "exited" => sw' = sw /\ Live' = Live]_vars

\* The part of C19 that holds, under SpecLifecycleFair: after the
\* cancellation the peer manager goroutine ends.
SweeperEventuallyExits == ctxDone ~> (sw.pc \in {"exited", "crashed"})

====
